---- MODULE Spec2Model ----
(***************************************************************************)
(* Model of data_juicer/ops/mapper/optimize_qa_mapper.py: OptimizeQAMapper *)
(* (construction, build_input, parse_output, process_single).              *)
(*                                                                         *)
(* Text is a sequence of one-character strings.  The module is ASCII, so   *)
(* the CJK characters of the source's constants are written with ASCII     *)
(* stand-ins, one stand-in per source character:                           *)
(*    "["  = U+3010 (left lenticular bracket)   "]" = U+3011 (right one)   *)
(*    "wen" "ti" = the two characters of "question" in the question marker *)
(*    "hui" "da" = the two characters of "answer" in the answer marker     *)
(*    "yi" "xia" "shi" "yuan" "shi3" "dui" ":" = the other characters of   *)
(*    DEFAULT_INPUT_TEMPLATE.                                              *)
(***************************************************************************)
EXTENDS Integers, Sequences, FiniteSets, TLC

\* ------------------------------------------------------------------ bounds
MaxPieces == 3      \* free-form model replies are built from at most this many pieces
MaxRecords == 2     \* records one worker processes in a run
MaxDevices == 1     \* torch.cuda.device_count() ranges over 0..MaxDevices
MaxProc == 2        \* caller-supplied num_proc ranges over 1..MaxProc

\* ------------------------------------------------------------ python values
\* Python's None where a text is expected: a value no text is equal to.
None == <<"<None>">>

\* bool(v) of an Optional[str]: None and '' are falsy.
Truthy(v) == v # None /\ v # <<>>

\* Characters for which str.isspace() holds / which the regex class \s matches.
Whitespace == {" ", "\n", "\t"}

RECURSIVE LStrip(_)
LStrip(s) == IF s # <<>> /\ Head(s) \in Whitespace THEN LStrip(Tail(s)) ELSE s

RECURSIVE RStrip(_)
RStrip(s) ==
    IF s # <<>> /\ s[Len(s)] \in Whitespace THEN RStrip(SubSeq(s, 1, Len(s) - 1)) ELSE s

\* str.strip()
Strip(s) == RStrip(LStrip(s))

\* ---------------------------------------------------------- class constants
QMark == <<"[", "wen", "ti", "]">>
AMark == <<"[", "hui", "da", "]">>
Placeholder == <<"{", "}">>

DEFAULT_SYSTEM_PROMPT == <<"S", "Y", "S">> \o <<"\n">> \o QMark \o <<"\n">> \o AMark
DEFAULT_INPUT_TEMPLATE ==
    <<"yi", "xia", "shi", "yuan", "shi3", "wen", "da", "dui", ":", "\n">> \o Placeholder
DEFAULT_QA_PAIR_TEMPLATE ==
    QMark \o <<"\n">> \o Placeholder \o <<"\n">> \o AMark \o <<"\n">> \o Placeholder

\* ------------------------------------------------------------- str.format
\* template.format(*args) for templates whose only replacement fields are
\* auto-numbered "{}": the k-th "{}" is replaced by args[k]; the arguments are
\* inserted as they are and never scanned for fields themselves.  A field past
\* the last argument raises IndexError.
RECURSIVE FormatFrom(_, _, _, _)
FormatFrom(tpl, p, args, k) ==
    IF p > Len(tpl) THEN [raised |-> "none", text |-> <<>>]
    ELSE IF tpl[p] = "{" /\ p < Len(tpl) /\ tpl[p + 1] = "}"
    THEN IF k > Len(args) THEN [raised |-> "IndexError", text |-> <<>>]
         ELSE LET rest == FormatFrom(tpl, p + 2, args, k + 1)
              IN  [raised |-> rest.raised, text |-> args[k] \o rest.text]
    ELSE LET rest == FormatFrom(tpl, p + 1, args, k)
         IN  [raised |-> rest.raised, text |-> <<tpl[p]>> \o rest.text]

Format(tpl, args) == FormatFrom(tpl, 1, args, 1)

\* ------------------------------------------------------ the output pattern
\* DEFAULT_OUTPUT_PATTERN = .*? QMark \s* (.*?) \s* AMark \s* (.*)  under re.DOTALL

\* '.' under re.DOTALL matches every character, the newline included.
DotMatches(c) == TRUE

\* The literal lit occurs in s right after offset p (0-based).
LitAt(s, p, lit) ==
    /\ p + Len(lit) <= Len(s)
    /\ \A k \in 1..Len(lit) : s[p + k] = lit[k]

\* The lengths n for which the n characters after offset p are all whitespace.
WsLens(s, p) == {n \in 0..(Len(s) - p) : \A k \in 1..n : s[p + k] \in Whitespace}

\* The lengths n for which the n characters after offset p are all matched by '.'.
DotLens(s, p) == {n \in 0..(Len(s) - p) : \A k \in 1..n : DotMatches(s[p + k])}

\* Whether the rest of the pattern can match s from offset p, for each place in
\* the pattern:  AfterQ = \s*(.*?)\s*AMark\s*(.*),  AfterGap = (.*?)\s*AMark\s*(.*),
\* AfterG1 = \s*AMark\s*(.*),  FromQ = QMark\s*(.*?)\s*AMark\s*(.*).  What follows
\* AMark, \s*(.*), matches from every offset.
AfterG1(s, p) == \E d \in WsLens(s, p) : LitAt(s, p + d, AMark)
AfterGap(s, p) == \E c \in DotLens(s, p) : AfterG1(s, p + c)
AfterQ(s, p) == \E b \in WsLens(s, p) : AfterGap(s, p + b)
FromQ(s, p) == LitAt(s, p, QMark) /\ AfterQ(s, p + Len(QMark))

\* The pattern matches s from offset 0.
HasMatch(s) == \E a \in DotLens(s, 0) : FromQ(s, a)

Min(S) == CHOOSE x \in S : \A y \in S : x <= y
Max(S) == CHOOSE x \in S : \A y \in S : x >= y

\* The match a backtracking engine reports, as the lengths <<a, b, c, d, e, f>>
\* taken by  .*?  \s*  (.*?)  \s*  \s*  (.*)  in pattern order: quantifiers are
\* decided in that order, a lazy one (.*?) taking the shortest and a greedy one
\* (\s*, .*) the longest length from which the rest of the pattern still matches.
MatchF(s, a, b, c, d, e) ==
    <<a, b, c, d, e, Max(DotLens(s, a + b + c + d + e + Len(QMark) + Len(AMark)))>>
MatchE(s, a, b, c, d) ==
    MatchF(s, a, b, c, d, Max(WsLens(s, a + b + c + d + Len(QMark) + Len(AMark))))
MatchD(s, a, b, c) ==
    MatchE(s, a, b, c, Max({d \in WsLens(s, a + b + c + Len(QMark)) :
                               LitAt(s, a + b + c + d + Len(QMark), AMark)}))
MatchC(s, a, b) ==
    MatchD(s, a, b, Min({c \in DotLens(s, a + b + Len(QMark)) :
                            AfterG1(s, a + b + c + Len(QMark))}))
MatchB(s, a) ==
    MatchC(s, a, Max({b \in WsLens(s, a + Len(QMark)) :
                         AfterGap(s, a + b + Len(QMark))}))
FirstMatch(s) == MatchB(s, Min({a \in DotLens(s, 0) : FromQ(s, a)}))

\* The two capture groups of a match m of s.
Groups(s, m) ==
    LET g1 == m[1] + Len(QMark) + m[2]
        g2 == g1 + m[3] + m[4] + Len(AMark) + m[5]
    IN  <<SubSeq(s, g1 + 1, g1 + m[3]), SubSeq(s, g2 + 1, g2 + m[6])>>

\* re.findall(pattern, s, re.DOTALL): the pattern has two groups, so the result is
\* a list of tuples of strings, one per non-overlapping match.  The pattern starts
\* with .*? and ends with .*, so a match found from offset 0 runs to the end of s
\* and no second match follows it.
FindAll(s) ==
    IF ~HasMatch(s) THEN <<>>
    ELSE <<[type |-> "tuple", items |-> Groups(s, FirstMatch(s))]>>

\* ------------------------------------------------------------ collaborators
\* The attribute lookup obj.group: a tuple has no attribute 'group'.
GetAttrGroup(obj) == IF obj.type = "Match" THEN "none" ELSE "AttributeError"

\* Field names the base class Mapper gives the operator.
query_key == "query"
response_key == "response"

\* Mapper.__init__(**kwargs): the base class stores the caller's num_proc.
BaseInit(kwargs) == [num_proc |-> kwargs.num_proc]

\* get_model(model_key, rank, use_cuda): the provider builds the model of a key on
\* its first use in the worker and returns the cached one afterwards.  loaded is
\* the sequence of keys whose model the worker has built so far.
GetModel(loaded, key) ==
    IF \E i \in 1..Len(loaded) : loaded[i] = key THEN loaded ELSE Append(loaded, key)

\* ----------------------------------------------------------------- __init__
\* The object before __init__ ran, and a slot of the heap that holds no record.
NoObject == [constructed |-> FALSE]
NoRecord == [allocated |-> FALSE]

OrDefault(v, default) == IF Truthy(v) THEN v ELSE default

\* __init__ with the assertion left out.
CtorNoAssert(a, devs) ==
    LET base == BaseInit(a)
        tps  == IF a.enable_vllm /\ a.tensor_parallel_size = 0
                THEN devs ELSE a.tensor_parallel_size
    IN  [raised |-> "none",
         prepared |-> <<[model_type |-> IF a.enable_vllm THEN "vllm" ELSE "huggingface",
                         return_pipe |-> ~a.enable_vllm,
                         tensor_parallel_size |-> tps]>>,
         self |-> [constructed |-> TRUE,
                   system_prompt |-> OrDefault(a.system_prompt, DEFAULT_SYSTEM_PROMPT),
                   input_template |-> OrDefault(a.input_template, DEFAULT_INPUT_TEMPLATE),
                   qa_pair_template |->
                       OrDefault(a.qa_pair_template, DEFAULT_QA_PAIR_TEMPLATE),
                   enable_vllm |-> a.enable_vllm,
                   num_proc |-> IF a.enable_vllm THEN 1 ELSE base.num_proc,
                   model_key |-> 1,
                   sampling_params |-> IF a.enable_vllm THEN "SamplingParams" ELSE "dict"]]

\* __init__ that leaves num_proc as the base class set it on the vllm branch too.
CtorKeepNumProc(a, devs) ==
    LET r == CtorNoAssert(a, devs)
    IN  IF a.enable_vllm /\ devs < 1
        THEN [raised |-> "AssertionError", prepared |-> <<>>, self |-> NoObject]
        ELSE [r EXCEPT !.self.num_proc = BaseInit(a).num_proc]

\* OptimizeQAMapper.__init__(hf_model, *, ..., **kwargs) where
\* torch.cuda.device_count() is devs.  The result names the error raised (or
\* "none"), the prepare_model calls made, in order, and the object's fields; the
\* model key is the position of the call in the provider's list.  A
\* tensor_parallel_size of 0 stands for "not given" (None).
Ctor(a, devs) ==
    LET base == BaseInit(a)
    IN  IF a.enable_vllm
        THEN IF devs < 1
             THEN [raised |-> "AssertionError", prepared |-> <<>>, self |-> NoObject]
             ELSE [raised |-> "none",
                   prepared |-> <<[model_type |-> "vllm",
                                   return_pipe |-> FALSE,
                                   tensor_parallel_size |->
                                       IF a.tensor_parallel_size = 0
                                       THEN devs ELSE a.tensor_parallel_size]>>,
                   self |-> [constructed |-> TRUE,
                             system_prompt |->
                                 OrDefault(a.system_prompt, DEFAULT_SYSTEM_PROMPT),
                             input_template |->
                                 OrDefault(a.input_template, DEFAULT_INPUT_TEMPLATE),
                             qa_pair_template |->
                                 OrDefault(a.qa_pair_template, DEFAULT_QA_PAIR_TEMPLATE),
                             enable_vllm |-> TRUE,
                             num_proc |-> 1,
                             model_key |-> 1,
                             sampling_params |-> "SamplingParams"]]
        ELSE [raised |-> "none",
              prepared |-> <<[model_type |-> "huggingface",
                              return_pipe |-> TRUE,
                              tensor_parallel_size |-> a.tensor_parallel_size]>>,
              self |-> [constructed |-> TRUE,
                        system_prompt |-> OrDefault(a.system_prompt, DEFAULT_SYSTEM_PROMPT),
                        input_template |->
                            OrDefault(a.input_template, DEFAULT_INPUT_TEMPLATE),
                        qa_pair_template |->
                            OrDefault(a.qa_pair_template, DEFAULT_QA_PAIR_TEMPLATE),
                        enable_vllm |-> FALSE,
                        num_proc |-> base.num_proc,
                        model_key |-> 1,
                        sampling_params |-> "dict"]]

\* ----------------------------------------------------------- process_single
\* A lookup that prepares a fresh model on every record.
ModelKeyFresh(obj, prep) ==
    [key |-> Len(prep) + 1, prepared |-> Append(prep, prep[obj.model_key])]

\* The first statement of process_single: the key handed to get_model, and the
\* provider's list of prepared models after it.
ModelKey(obj, prep) == [key |-> obj.model_key, prepared |-> prep]

\* build_input with question and answer swapped.
BuildInputSwapped(obj, rec) ==
    LET qa == Format(obj.qa_pair_template, <<rec[response_key], rec[query_key]>>)
    IN  IF qa.raised # "none" THEN qa ELSE Format(obj.input_template, <<qa.text>>)

\* build_input(sample)
BuildInput(obj, rec) ==
    LET qa == Format(obj.qa_pair_template, <<rec[query_key], rec[response_key]>>)
    IN  IF qa.raised # "none" THEN qa ELSE Format(obj.input_template, <<qa.text>>)

Messages(obj, prompt) ==
    <<[role |-> "system", content |-> obj.system_prompt],
      [role |-> "user", content |-> prompt]>>

\* A call that tries the model once more when the first call raises.
InvokeRetry(obj, msgs, outcomes) ==
    LET o == IF outcomes[1].raised # "none" THEN outcomes[2] ELSE outcomes[1]
    IN  [calls |-> IF outcomes[1].raised # "none" THEN 2 ELSE 1,
         backend |-> IF obj.enable_vllm THEN "vllm.chat" ELSE "pipeline",
         args |-> IF obj.enable_vllm THEN <<"messages", "sampling_params">>
                  ELSE <<"messages", "return_full_text=False", "**sampling_params">>,
         messages |-> msgs,
         raised |-> o.raised,
         output |-> o.text]

\* The model call of process_single.  outcomes[k] is what the k-th call of the
\* model would do: raise, or answer with a text.  The vllm engine is called with
\* (messages, sampling_params) and the pipeline with return_full_text=False.
Invoke(obj, msgs, outcomes) ==
    [calls |-> 1,
     backend |-> IF obj.enable_vllm THEN "vllm.chat" ELSE "pipeline",
     args |-> IF obj.enable_vllm THEN <<"messages", "sampling_params">>
              ELSE <<"messages", "return_full_text=False", "**sampling_params">>,
     messages |-> msgs,
     raised |-> outcomes[1].raised,
     output |-> outcomes[1].text]

\* parse_output(raw_output).  matches[0] is an element of re.findall's list, and
\* .group is looked up on it before anything is stripped.
ParseOutput(raw) ==
    LET matches == FindAll(raw)
    IN  IF matches # <<>>
        THEN LET match == matches[1]
             IN  IF GetAttrGroup(match) # "none"
                 THEN [raised |-> GetAttrGroup(match), value |-> <<None, None>>]
                 ELSE [raised |-> "none",
                       value |-> <<Strip(match.items[1]), Strip(match.items[2])>>]
        ELSE [raised |-> "none", value |-> <<None, None>>]

\* A merge that stores the parsed halves without testing them.
MergeUnconditional(hp, ref, parsed) ==
    [heap |-> [hp EXCEPT ![ref] = [@ EXCEPT ![query_key] = parsed[1],
                                             ![response_key] = parsed[2]]],
     ret |-> ref]

\* A merge that returns an updated copy and adds a field to the caller's record.
MergeCopy(hp, ref, parsed) ==
    [heap |-> [hp EXCEPT ![ref] = [k \in DOMAIN hp[ref] \ {"meta"} |-> hp[ref][k]],
                         ![ref + 1] = hp[ref]],
     ret |-> ref + 1]

\* The tail of process_single: the two conditional stores and the return.
Merge(hp, ref, parsed) ==
    LET r1 == IF Truthy(parsed[1]) THEN [hp[ref] EXCEPT ![query_key] = parsed[1]]
              ELSE hp[ref]
        r2 == IF Truthy(parsed[2]) THEN [r1 EXCEPT ![response_key] = parsed[2]] ELSE r1
    IN  [heap |-> [hp EXCEPT ![ref] = r2], ret |-> ref]

\* ------------------------------------------------------------------ inputs
RECURSIVE Flatten(_)
Flatten(t) == IF t = <<>> THEN <<>> ELSE Head(t) \o Flatten(Tail(t))

CUSTOM_INPUT_TEMPLATE == <<"I">> \o Placeholder \o <<"!">>
CUSTOM_QA_PAIR_TEMPLATE == Placeholder \o <<"|">> \o Placeholder

\* Constructor arguments: every combination of the options the constructor reads.
AllArgs ==
    [enable_vllm : BOOLEAN,
     system_prompt : {None},
     input_template : {None, <<>>, CUSTOM_INPUT_TEMPLATE},
     qa_pair_template : {None, CUSTOM_QA_PAIR_TEMPLATE},
     tensor_parallel_size : {0, 1},
     num_proc : 1..MaxProc]

\* Constructor arguments that leave every template at its default.
DefaultArgs ==
    {a \in AllArgs : /\ a.input_template = None
                     /\ a.qa_pair_template = None
                     /\ a.tensor_parallel_size = 0
                     /\ a.num_proc = 1}

Questions == {<<"Q", "1">>, <<"{", "}">>}
Answers == {<<"A", "1">>, <<"x">>}
Meta == <<"m">>

\* Replies of the model: every text of at most MaxPieces pieces, and every text of
\* the shape  prefix QMark gap q gap AMark gap a tail suffix.
Pieces == {QMark, AMark, <<" ">>, <<"\n">>, <<"x">>, <<"n">>}
FreeReplies == {Flatten(t) : t \in UNION {[1..n -> Pieces] : n \in 0..MaxPieces}}

Prefixes == {<<>>, <<"n">>}
Gaps == {<<"\n">>, <<"\n", " ", " ">>}
Bodies == {<<>>, <<"x">>, <<"N", " ", "Q">>}
Tails == {<<>>, <<" ", " ">>}
Suffixes == {<<>>, <<"\n", "m">>}

Sectioned(p, g1, q, g2, g3, a, t, x) ==
    p \o QMark \o g1 \o q \o g2 \o AMark \o g3 \o a \o t \o x

SectionedReplies ==
    {Sectioned(w[1], w[2], w[3], w[4], w[5], w[6], w[7], w[8]) :
        w \in Prefixes \X Gaps \X Bodies \X Gaps \X Gaps \X Bodies \X Tails \X Suffixes}

Replies == FreeReplies \cup SectionedReplies

\* The reply the system prompt asks for.
ExactReply(q, a) == Sectioned(<<>>, <<"\n">>, q, <<"\n">>, <<"\n">>, a, <<>>, <<>>)

FewReplies ==
    {ExactReply(<<"x">>, <<"N", " ", "Q">>),
     <<"n", "x">>,
     Sectioned(<<"n">>, <<"\n", " ", " ">>, <<"N", " ", "Q">>, <<"\n", " ", " ">>,
               <<"\n">>, <<"x">>, <<" ", " ">>, <<"\n", "m">>)}

ModelErrors == {"TimeoutError", "OutOfMemoryError"}

\* What one call of the model may do.
Outcomes(replies) ==
    {[raised |-> "none", text |-> r] : r \in replies}
        \cup {[raised |-> e, text |-> None] : e \in ModelErrors}

RetryOutcomes ==
    {[raised |-> "none", text |-> <<"n", "x">>], [raised |-> "TimeoutError", text |-> None]}

\* ------------------------------------------------------------------- state
VARIABLES
    pc,            \* where the worker is: new, init_failed, ready, start, resolved,
                   \* built, called, parsed, returned, raised
    device_count,  \* torch.cuda.device_count()
    ctor_args,     \* the arguments __init__ was called with
    self,          \* the operator's fields
    prepared,      \* the prepare_model calls made so far; a key is a position
    loaded,        \* the keys whose model get_model has built in this worker
    resolved,      \* the keys process_single handed to get_model
    heap,          \* the records, by reference
    sample,        \* process_single's argument: a reference
    orig,          \* the record as it was when process_single was entered
    ret,           \* the reference process_single returned (0: none)
    input_prompt,  \* build_input's result
    request,       \* the call made on the model
    output,        \* the model's raw reply
    parsed,        \* parse_output's result
    thrown,        \* the error the model call raised
    err,           \* the error that reached the caller
    nrec           \* records handed to process_single so far

vars == <<pc, device_count, ctor_args, self, prepared, loaded, resolved, heap, sample,
          orig, ret, input_prompt, request, output, parsed, thrown, err, nrec>>

Refs == 1..2
NoRequest == [calls |-> 0]

callVars == <<input_prompt, request, output, parsed, thrown, err>>

Init ==
    /\ pc = "new"
    /\ device_count \in 0..MaxDevices
    /\ ctor_args = NoObject
    /\ self = NoObject
    /\ prepared = <<>>
    /\ loaded = <<>>
    /\ resolved = {}
    /\ heap = [r \in Refs |-> NoRecord]
    /\ sample = 0
    /\ orig = NoRecord
    /\ ret = 0
    /\ input_prompt = None
    /\ request = NoRequest
    /\ output = None
    /\ parsed = <<None, None>>
    /\ thrown = "none"
    /\ err = "none"
    /\ nrec = 0

\* The caller constructs the operator.
Construct(argset) ==
    /\ pc = "new"
    /\ \E a \in argset :
        LET r == Ctor(a, device_count)
        IN  /\ ctor_args' = a
            /\ self' = r.self
            /\ prepared' = prepared \o r.prepared
            /\ err' = r.raised
            /\ pc' = IF r.raised = "none" THEN "ready" ELSE "init_failed"
    /\ UNCHANGED <<device_count, loaded, resolved, heap, sample, orig, ret, input_prompt,
                   request, output, parsed, thrown, nrec>>

\* The framework hands the worker its next record; a record whose processing
\* raised is skipped.
Enter ==
    /\ pc \in {"ready", "returned", "raised"}
    /\ nrec < MaxRecords
    /\ \E q \in Questions, a \in Answers :
        LET rec == [query |-> q, response |-> a, meta |-> Meta]
        IN  /\ heap' = [r \in Refs |-> IF r = 1 THEN rec ELSE NoRecord]
            /\ orig' = rec
    /\ sample' = 1
    /\ ret' = 0
    /\ input_prompt' = None
    /\ request' = NoRequest
    /\ output' = None
    /\ parsed' = <<None, None>>
    /\ thrown' = "none"
    /\ err' = "none"
    /\ nrec' = nrec + 1
    /\ pc' = "start"
    /\ UNCHANGED <<device_count, ctor_args, self, prepared, loaded, resolved>>

\* process_single, line 118: model, _ = get_model(self.model_key, rank, ...)
Resolve ==
    /\ pc = "start"
    /\ LET k == ModelKey(self, prepared)
       IN  /\ prepared' = k.prepared
           /\ resolved' = resolved \cup {k.key}
           /\ loaded' = GetModel(loaded, k.key)
    /\ pc' = "resolved"
    /\ UNCHANGED <<device_count, ctor_args, self, heap, sample, orig, ret, nrec>>
    /\ UNCHANGED callVars

\* process_single, lines 120-127: the prompt and the two messages
Build ==
    /\ pc = "resolved"
    /\ LET b == BuildInput(self, heap[sample])
       IN  IF b.raised # "none"
           THEN /\ err' = b.raised
                /\ pc' = "raised"
                /\ UNCHANGED input_prompt
           ELSE /\ input_prompt' = b.text
                /\ pc' = "built"
                /\ UNCHANGED err
    /\ UNCHANGED <<device_count, ctor_args, self, prepared, loaded, resolved, heap, sample,
                   orig, ret, request, output, parsed, thrown, nrec>>

\* process_single, lines 129-137: the call of the model
Call(replies) ==
    /\ pc = "built"
    /\ \E o1 \in Outcomes(replies), o2 \in RetryOutcomes :
        LET r == Invoke(self, Messages(self, input_prompt), <<o1, o2>>)
        IN  /\ request' = [calls |-> r.calls, backend |-> r.backend, args |-> r.args,
                           messages |-> r.messages]
            /\ output' = r.output
            /\ thrown' = o1.raised
            /\ err' = r.raised
            /\ pc' = IF r.raised = "none" THEN "called" ELSE "raised"
    /\ UNCHANGED <<device_count, ctor_args, self, prepared, loaded, resolved, heap, sample,
                   orig, ret, input_prompt, parsed, nrec>>

\* process_single, line 139: parsed_q, parsed_a = self.parse_output(output)
Parse ==
    /\ pc = "called"
    /\ LET r == ParseOutput(output)
       IN  /\ parsed' = r.value
           /\ err' = r.raised
           /\ pc' = IF r.raised = "none" THEN "parsed" ELSE "raised"
    /\ UNCHANGED <<device_count, ctor_args, self, prepared, loaded, resolved, heap, sample,
                   orig, ret, input_prompt, request, output, thrown, nrec>>

\* process_single, lines 140-145: the stores and the return
Store ==
    /\ pc = "parsed"
    /\ LET r == Merge(heap, sample, parsed)
       IN  /\ heap' = r.heap
           /\ ret' = r.ret
    /\ pc' = "returned"
    /\ UNCHANGED <<device_count, ctor_args, self, prepared, loaded, resolved, sample, orig,
                   nrec>>
    /\ UNCHANGED callVars

\* A worker under every configuration, with a few replies of the model.
Next == Construct(AllArgs) \/ Enter \/ Resolve \/ Build \/ Call(FewReplies) \/ Parse \/ Store
Spec == Init /\ [][Next]_vars

\* A worker under the default templates, with every reply of the model.
NextParse ==
    Construct(DefaultArgs) \/ Enter \/ Resolve \/ Build \/ Call(Replies) \/ Parse \/ Store
SpecParse == Init /\ [][NextParse]_vars

\* ------------------------------------------------------------------ claims
\* process_single has ended, by a return or by an error reaching the caller.
Ended == pc \in {"returned", "raised"}

\* parse_output has been called on the model's reply and has ended.
ParseEnded == output # None /\ pc \in {"parsed", "returned", "raised"}

\* s holds a question marker and, somewhere after it, an answer marker.
HasSections(s) ==
    \E i \in 0..Len(s), j \in 0..Len(s) :
        LitAt(s, i, QMark) /\ LitAt(s, j, AMark) /\ j >= i + Len(QMark)

Texts == Bodies \ {<<>>}

\* C1: when the model's reply is exactly  QMark \n q \n AMark \n a  with q and a
\* not empty, process_single returns, and the record's question is strip(q) and
\* its answer strip(a).
C1_ExactFormatReplacesBoth ==
    \A q \in Texts, a \in Texts :
        (Ended /\ output = ExactReply(q, a)) =>
            /\ pc = "returned"
            /\ ret = sample
            /\ heap[sample][query_key] = Strip(q)
            /\ heap[sample][response_key] = Strip(a)

\* C2: when the model's reply holds no question marker followed by an answer
\* marker, parse_output returns (None, None) without raising, and process_single
\* returns the record with question and answer as they were.
C2_NoMatchLeavesRecord ==
    (ParseEnded /\ ~HasSections(output)) =>
        /\ pc # "raised"
        /\ err = "none"
        /\ parsed = <<None, None>>
        /\ pc = "returned" =>
            /\ ret = sample
            /\ heap[sample][query_key] = orig[query_key]
            /\ heap[sample][response_key] = orig[response_key]

C2_Witness ==
    /\ pc = "returned"
    /\ output # None
    /\ ~HasSections(output)
    /\ \E i \in 0..Len(output) : LitAt(output, i, AMark)

\* C3: a reply in the expected format whose question section is empty updates the
\* answer to the extracted answer and keeps the question; one whose answer section
\* is empty updates the question and keeps the answer; and a field is never
\* replaced by an empty text or by None.
C3_PartialParsePerField ==
    /\ \A a \in Texts :
        (Ended /\ output = ExactReply(<<>>, a)) =>
            /\ pc = "returned"
            /\ heap[sample][query_key] = orig[query_key]
            /\ heap[sample][response_key] = Strip(a)
    /\ \A q \in Texts :
        (Ended /\ output = ExactReply(q, <<>>)) =>
            /\ pc = "returned"
            /\ heap[sample][query_key] = Strip(q)
            /\ heap[sample][response_key] = orig[response_key]
    /\ sample # 0 =>
            /\ Truthy(heap[sample][query_key])
            /\ Truthy(heap[sample][response_key])

\* C4: for a reply  prefix QMark gap q gap AMark gap a tail suffix  where the
\* suffix is noise on a following line, parse_output returns exactly (q, a).
C4_NoiseIgnored ==
    \A p \in Prefixes, g1 \in Gaps, q \in Texts, g2 \in Gaps, g3 \in Gaps, a \in Texts,
       t \in Tails, x \in Suffixes :
        (ParseEnded /\ output = Sectioned(p, g1, q, g2, g3, a, t, x)) =>
            /\ pc # "raised"
            /\ parsed = <<q, a>>

\* C5: when the model call raises, that error is the one that reaches the caller,
\* the model was called once, on the configured backend, and the record's fields
\* are the original ones.
C5_ModelErrorPropagates ==
    thrown # "none" =>
        /\ pc = "raised"
        /\ err = thrown
        /\ request.calls = 1
        /\ request.backend = (IF self.enable_vllm THEN "vllm.chat" ELSE "pipeline")
        /\ output = None
        /\ ret = 0
        /\ heap[sample] = orig

C5_Witness ==
    /\ pc = "raised"
    /\ thrown = "OutOfMemoryError"
    /\ self.enable_vllm
    /\ nrec = 2

\* C6: during and after every call of process_single the caller's record has the
\* keys it had, every field but question and answer has its original value, no
\* other record exists, and what is returned is the caller's record itself.
C6_FrameInPlace ==
    sample # 0 =>
        /\ DOMAIN heap[sample] = DOMAIN orig
        /\ \A k \in DOMAIN orig \ {query_key, response_key} : heap[sample][k] = orig[k]
        /\ \A r \in Refs \ {sample} : heap[r] = NoRecord
        /\ ret = (IF pc = "returned" THEN sample ELSE 0)

C6_Witness ==
    /\ pc = "returned"
    /\ ret = sample
    /\ output # None
    /\ \E i \in 0..Len(output) : LitAt(output, i, QMark)
    /\ heap[sample] = orig
    /\ nrec = 2

\* C7: with enable_vllm and no CUDA device, construction fails with an
\* AssertionError, no model is prepared and no record is processed; without
\* enable_vllm construction succeeds whatever the device count is, and prepares
\* the model with the parameters as given.
C7_VllmNeedsAccelerator ==
    pc # "new" =>
        IF ctor_args.enable_vllm /\ device_count = 0
        THEN /\ pc = "init_failed"
             /\ err = "AssertionError"
             /\ prepared = <<>>
             /\ self = NoObject
             /\ nrec = 0
        ELSE /\ pc # "init_failed"
             /\ Len(prepared) >= 1
             /\ ~ctor_args.enable_vllm =>
                    /\ prepared[1].model_type = "huggingface"
                    /\ prepared[1].tensor_parallel_size = ctor_args.tensor_parallel_size

C7_Witness ==
    /\ pc = "init_failed"
    /\ ctor_args.enable_vllm
    /\ device_count = 0

\* C8: after a successful construction with enable_vllm, num_proc is 1 whatever
\* the caller supplied, and one vllm engine is prepared; without enable_vllm
\* num_proc is what the base class stored.
C8_VllmSingleWorker ==
    pc \notin {"new", "init_failed"} =>
        /\ self.enable_vllm = ctor_args.enable_vllm
        /\ self.enable_vllm =>
            /\ self.num_proc = 1
            /\ Cardinality({i \in 1..Len(prepared) : prepared[i].model_type = "vllm"}) = 1
        /\ ~self.enable_vllm => self.num_proc = BaseInit(ctor_args).num_proc

C8_Witness ==
    /\ pc = "returned"
    /\ self.enable_vllm
    /\ ctor_args.num_proc > 1
    /\ self.num_proc = 1

\* C9: the model is prepared once, at construction; every process_single resolves
\* the model through that key and prepares nothing, so the worker builds the model
\* at most once, however many records it processes.
C9_HandleReused ==
    pc \notin {"new", "init_failed"} =>
        /\ Len(prepared) = 1
        /\ self.model_key = 1
        /\ resolved \subseteq {self.model_key}
        /\ Len(loaded) <= 1
        /\ (nrec >= 1 /\ pc # "start") => loaded = <<self.model_key>>

C9_Witness ==
    /\ pc = "returned"
    /\ nrec = 2
    /\ resolved = {1}
    /\ loaded = <<1>>

\* What build_input is to produce, written out for the templates of AllArgs.
ExpectedQAPair ==
    IF ctor_args.qa_pair_template = None
    THEN QMark \o <<"\n">> \o orig[query_key] \o <<"\n">> \o AMark \o <<"\n">>
             \o orig[response_key]
    ELSE orig[query_key] \o <<"|">> \o orig[response_key]

ExpectedPrompt ==
    IF ctor_args.input_template \in {None, <<>>}
    THEN <<"yi", "xia", "shi", "yuan", "shi3", "wen", "da", "dui", ":", "\n">>
             \o ExpectedQAPair
    ELSE <<"I">> \o ExpectedQAPair \o <<"!">>

DefaultsQ1A1 ==
    /\ ctor_args.qa_pair_template = None
    /\ ctor_args.input_template = None
    /\ orig[query_key] = <<"Q", "1">>
    /\ orig[response_key] = <<"A", "1">>

\* C10: build_input's result is the input template around the QA-pair template
\* around the question and then the answer; under the default templates, 'Q1' and
\* 'A1' give the default prefix, a newline, the question marker, a newline, Q1, a
\* newline, the answer marker, a newline and A1; the record is left as it was.
C10_BuildInput ==
    input_prompt # None =>
        /\ input_prompt = ExpectedPrompt
        /\ DefaultsQ1A1 =>
            input_prompt = <<"yi", "xia", "shi", "yuan", "shi3", "wen", "da", "dui", ":",
                             "\n", "[", "wen", "ti", "]", "\n", "Q", "1", "\n",
                             "[", "hui", "da", "]", "\n", "A", "1">>
        /\ pc = "built" => heap[sample] = orig

C10_Witness ==
    /\ pc = "built"
    /\ DefaultsQ1A1
    /\ input_prompt # None
====
